---- MODULE Spec2Model ----
(***************************************************************************)
(* Capture session manager, compositor overlay geometry, editor trim       *)
(* window and export finalisation of the screen recorder, as state         *)
(* machines.                                                               *)
(*                                                                         *)
(* A capture session is one invocation of startRecording; its number       *)
(* identifies the streams, the encoder, the interval timer and the         *)
(* compositor loop that invocation created.  0 is the null reference.      *)
(* Capture time is counted in periods of the duration timer (TimerMs),     *)
(* editor time in steps of the trim sliders (0.1 s), overlay lengths in    *)
(* 1/10000 px.                                                             *)
(*                                                                         *)
(* Callbacks created by useCallback read the React state of the render     *)
(* that created them (rIsRecording, rIsPaused, rCameraStream); refs and    *)
(* the encoder are read as they are.                                       *)
(*                                                                         *)
(* Specifications:                                                         *)
(*   Spec         one capture session, every settings choice, wall clock   *)
(*   SpecOverlap  MaxSessions invocations that may overlap, no clock       *)
(*   SpecChunks   the encoder chunks of invocations that may overlap        *)
(*   SpecTrim     the trim tab of the editor                               *)
(*   SpecExport   exportVideo, current and earlier version of the editor   *)
(*   SpecExportLive  SpecExport with the browser's events delivered        *)
(*   SpecEnsureReady  the same for the current editor on a few trim windows *)
(*   SpecOverlay  the overlay rectangle of drawCompositeFrame              *)
(*   SpecCompositor  overlay settings changed under a running compositor   *)
(*   SpecLibrary  the recordings list and its IndexedDB object store       *)
(*   SpecAnnotations  canvas overlays, exports and the reloaded library    *)
(*   SpecRestore  exportVideo of the current editor, trims up to the end   *)
(*   SpecRoundTrip  the library with deletes of listed recordings          *)
(*   SpecPaused   overlapping invocations and pause on the wall clock      *)
(*   SpecCountdown  useCountdown under repeated presses of start           *)
(*   SpecStability  useBackgroundStability: wake lock and timer worker     *)
(***************************************************************************)
EXTENDS Integers, Sequences, FiniteSets, TLC

\* ------------------------------------------------------------------ bounds
MaxSessions == 2
MaxTime == 11

\* ------------------------------------------------------- program constants
TimerMs == 100
MsPerSecond == 1000

Sessions == 1..MaxSessions
PreviewStream == MaxSessions + 1
AudioSources == {"none", "mic", "system", "both"}
Null == <<>>
Some(t) == <<t>>
TicksPerSecond == MsPerSecond \div TimerMs

VARIABLES
  settings,          \* audioSource and cameraEnabled of RecordingSettings
  isRecording, isPaused, duration, recordings,
  screenStream, cameraStream, isUIHidden,
  rIsRecording, rIsPaused, rCameraStream,   \* the values the last render's callbacks closed over
  mediaRecorderRef, timerRef, streamRef, durationRef,
  startTimeRef, pausedDurationRef, pauseStartRef,
  animationFrameRef, screenVideoRef, webcamVideoRef,
  pc, failCause, closureCam,
  display, sysAudio, webcam, mic, canvas, preview,
  recorder, stopPending, timers, timerDue, rafLoops,
  chunksRef,         \* the chunks pushed by ondataavailable since the last reset
  delivered,         \* the dataavailable events of each session's encoder, in order
  audioMix,          \* gain of the system and microphone branch at the mix destination, in tenths
  compositeAudio,    \* audio tracks on the composite stream
  now, activeTime, last,
  \* the editor: asset, trim window, export run
  videoDuration, currentTime, trimState,
  editorVersion, exportPc, isExporting, exportProgress, exports, exportRun,
  exportSpeed,       \* the speed multiplier chosen for the export, in percent
  frameMech,         \* whether the browser has requestVideoFrameCallback
  video, previous,   \* the source element; its muted and playbackRate before the export
  metadataWait,      \* seconds ensureVideoReady has waited for the metadata
  framePending, newFrame, timeupdateDue,
  drawn, frameIndex, \* first and last source frame drawn; the earlier version's loop index
  \* the compositor's overlay: the canvas size and the current overlay settings, the
  \* settings the running drawCompositeFrame closed over, the overlay last drawn
  overlayCfg, loopCfg, overlayRect,
  \* the library: the object store, the requests in flight, the mount effect's load
  store, saving, deleting, loadPc, loads, loaded, nextId,
  revokes,           \* calls of URL.revokeObjectURL per object URL
  saved, deleted, removed, expect,  \* what was saved, deleted, removed; what a load must return
  canvasOverlays,    \* the pending canvas overlays (React state of the provider)
  heldOverlays,      \* canvasOverlays as the addRecording held by the running export sees it
  nextOverlay,
  attached,          \* the overlays pending when the recording of each id was added
  \* useCountdown: the displayed count, the running intervals, the clock in half seconds
  count, intervals, cdNow, countAt, completed, intended,
  \* useBackgroundStability: the isRecording prop, the wake lock and the timer worker
  hookRecording, visible, wakeLockRef, wakeLocks, wakeRequests, nextLock,
  workerRef, workers, nextWorker

ctlVars == <<pc, failCause, isUIHidden>>
cmpVars == <<rafLoops, animationFrameRef, canvas>>
encVars == <<streamRef, startTimeRef, pausedDurationRef, pauseStartRef, mediaRecorderRef,
             recorder, isRecording, duration, durationRef, timerRef, timers, chunksRef>>
renderVars == <<rIsRecording, rIsPaused, rCameraStream>>
clockVars == <<now, activeTime, timerDue>>
audioVars == <<audioMix, compositeAudio>>
implVars == <<settings, isPaused, screenStream, cameraStream,
              screenVideoRef, webcamVideoRef, closureCam,
              display, sysAudio, webcam, mic, preview, stopPending, delivered,
              ctlVars, cmpVars, encVars, renderVars, clockVars, audioVars>>
\* last records a call of stop, pause or resume made outside its lifecycle state
captureVars == <<implVars, last>>
sessionVars == <<recordings, captureVars>>
trimVars == <<videoDuration, currentTime, trimState>>
exportVars == <<editorVersion, exportPc, isExporting, exportProgress, exports, exportRun,
                exportSpeed, frameMech, video, previous, framePending, newFrame,
                timeupdateDue, drawn, frameIndex, metadataWait>>
overlayVars == <<overlayCfg, loopCfg, overlayRect>>
editorVars == <<trimVars, exportVars, overlayVars>>
annotationVars == <<canvasOverlays, heldOverlays, nextOverlay, attached>>
storeVars == <<store, deleting, loadPc, loads, loaded, nextId, revokes, saved, deleted,
               removed, expect, annotationVars>>
libraryVars == <<saving, storeVars>>
countdownVars == <<count, intervals, cdNow, countAt, completed, intended>>
stabilityVars == <<hookRecording, visible, wakeLockRef, wakeLocks, wakeRequests, nextLock,
                   workerRef, workers, nextWorker>>
hookVars == <<countdownVars, stabilityVars>>
vars == <<sessionVars, editorVars, libraryVars, hookVars>>

NoCall == [op |-> "none", threw |-> FALSE]

\* ------------------------------------------------------------ construction
SessionInit ==
  /\ settings \in [audioSource : AudioSources, cameraEnabled : BOOLEAN]
  /\ isRecording = FALSE /\ isPaused = FALSE /\ duration = 0 /\ recordings = <<>>
  /\ screenStream = 0 /\ isUIHidden = FALSE
  \* CameraPreview acquires a preview stream and publishes it when the camera is enabled
  /\ cameraStream \in (IF settings.cameraEnabled THEN {0, PreviewStream} ELSE {0})
  /\ preview = IF cameraStream = PreviewStream THEN "live" ELSE "none"
  /\ rIsRecording = FALSE /\ rIsPaused = FALSE /\ rCameraStream = cameraStream
  /\ mediaRecorderRef = 0 /\ timerRef = 0 /\ streamRef = 0 /\ durationRef = 0
  /\ startTimeRef = Null /\ pausedDurationRef = 0 /\ pauseStartRef = Null
  /\ animationFrameRef = 0 /\ screenVideoRef = 0 /\ webcamVideoRef = 0
  /\ pc = [s \in Sessions |-> "new"]
  /\ failCause = [s \in Sessions |-> "none"]
  /\ closureCam = [s \in Sessions |-> 0]
  /\ display = [s \in Sessions |-> "none"]
  /\ sysAudio = [s \in Sessions |-> FALSE]
  /\ webcam = [s \in Sessions |-> "none"]
  /\ mic = [s \in Sessions |-> "none"]
  /\ canvas = [s \in Sessions |-> "none"]
  /\ recorder = [s \in Sessions |-> "none"]
  /\ stopPending = {} /\ timers = {} /\ timerDue = {} /\ rafLoops = {}
  /\ now = 0
  /\ activeTime = [s \in Sessions |-> 0]
  /\ audioMix = [s \in Sessions |-> [system |-> 0, mic |-> 0]]
  /\ compositeAudio = [s \in Sessions |-> 0]
  /\ chunksRef = <<>>
  /\ delivered = [s \in Sessions |-> <<>>]
  /\ last = NoCall

\* defaultSettings
DefaultSettings == [audioSource |-> "both", cameraEnabled |-> FALSE]

SessionIdle == SessionInit /\ settings = DefaultSettings

\* ------------------------------------------------------ startRecording
NeedsSystem == settings.audioSource \in {"system", "both"}
NeedsMic == settings.audioSource \in {"mic", "both"}

Await(s, p) ==
  /\ pc' = [pc EXCEPT ![s] = p]
  /\ UNCHANGED <<failCause, isUIHidden>>

\* the catch block of startRecording
StartCatch(s, cause) ==
  /\ pc' = [pc EXCEPT ![s] = "failed"]
  /\ failCause' = [failCause EXCEPT ![s] = cause]
  /\ isUIHidden' = FALSE

\* gain.value of the two branches, in tenths
systemGain == 10
micGainUnity == systemGain
micGain == IF settings.audioSource = "both" THEN 8 ELSE 10

\* hasAudioTracks, from the branches connected to the destination
hasAudioTracks(mix) == mix.system > 0 \/ mix.mic > 0

\* the audio tracks of destination.stream added to the canvas stream
CompositeAudioTracks(mix) ==
  IF hasAudioTracks(mix) /\ settings.audioSource # "none" THEN 1 ELSE 0

\* from the attachment of the mixed track and streamRef.current = canvasStream to the
\* end of the try block
EncoderSeg(s) ==
  /\ compositeAudio' = [compositeAudio EXCEPT ![s] = CompositeAudioTracks(audioMix'[s])]
  /\ streamRef' = s
  /\ \/ /\ StartCatch(s, "encoder")                 \* new MediaRecorder throws
        /\ UNCHANGED <<startTimeRef, pausedDurationRef, pauseStartRef, mediaRecorderRef,
                       recorder, isRecording, duration, durationRef, timerRef, timers,
                       chunksRef>>
     \/ /\ chunksRef' = <<>>
        /\ startTimeRef' = Some(now)
        /\ pausedDurationRef' = 0
        /\ pauseStartRef' = Null
        /\ mediaRecorderRef' = s
        /\ \/ /\ StartCatch(s, "encoder")           \* mediaRecorder.start throws
              /\ recorder' = [recorder EXCEPT ![s] = "inactive"]
              /\ UNCHANGED <<isRecording, duration, durationRef, timerRef, timers>>
           \/ /\ recorder' = [recorder EXCEPT ![s] = "recording"]
              /\ isRecording' = TRUE
              /\ duration' = 0
              /\ durationRef' = 0
              /\ timerRef' = s
              /\ timers' = timers \cup {s}
              /\ Await(s, "done")

\* the audio graph up to the microphone request
AudioThen(s) ==
  /\ audioMix' = [audioMix EXCEPT
                    ![s] = [system |-> IF NeedsSystem /\ sysAudio[s] THEN systemGain ELSE 0,
                            mic |-> 0]]
  /\ IF NeedsMic
       THEN Await(s, "mic") /\ UNCHANGED <<encVars, compositeAudio>>
       ELSE EncoderSeg(s)

\* drawCompositeFrame(), canvas.captureStream, new AudioContext
ComposeThen(s) ==
  /\ rafLoops' = rafLoops \cup {s}
  /\ animationFrameRef' = s
  /\ canvas' = [canvas EXCEPT ![s] = "live"]
  /\ \/ Await(s, "resume") /\ UNCHANGED <<encVars, audioVars>>   \* the context is suspended
     \/ AudioThen(s)

\* a caller starts a session: the keyboard shortcut and the Record page's button
\* both require isRecording to be false in the render they belong to
StartCall(s) ==
  /\ pc[s] = "new"
  /\ \A t \in Sessions : t < s => pc[t] # "new"
  /\ ~rIsRecording
  /\ pc' = [pc EXCEPT ![s] = "display"]
  /\ closureCam' = [closureCam EXCEPT ![s] = rCameraStream]
  /\ last' = NoCall
  /\ UNCHANGED <<settings, isPaused, recordings, screenStream, cameraStream,
                 screenVideoRef, webcamVideoRef, display, sysAudio, webcam, mic,
                 preview, stopPending, failCause, isUIHidden,
                 cmpVars, encVars, renderVars, clockVars, audioVars>>
  /\ UNCHANGED <<editorVars, libraryVars, delivered, hookVars>>

\* getDisplayMedia settles; on success the canvas is looked up and the screen video is played
DisplayResolve(s) ==
  /\ pc[s] = "display"
  /\ \/ /\ StartCatch(s, "screen")
        /\ UNCHANGED <<display, sysAudio, screenStream>>
     \/ /\ display' = [display EXCEPT ![s] = "live"]
        /\ \E a \in (IF NeedsSystem THEN BOOLEAN ELSE {FALSE}) :
             sysAudio' = [sysAudio EXCEPT ![s] = a]
        /\ screenStream' = s
        /\ \/ StartCatch(s, "canvas")
           \/ pc' = [pc EXCEPT ![s] = "play"] /\ isUIHidden' = TRUE /\ UNCHANGED failCause
  /\ last' = NoCall
  /\ UNCHANGED <<settings, isPaused, recordings, cameraStream, screenVideoRef,
                 webcamVideoRef, closureCam, webcam, mic, preview, stopPending,
                 cmpVars, encVars, renderVars, clockVars, audioVars>>
  /\ UNCHANGED <<editorVars, libraryVars, delivered, hookVars>>

\* screenVideo.play() settles
PlayResolve(s) ==
  /\ pc[s] = "play"
  /\ \/ /\ StartCatch(s, "play")
        /\ UNCHANGED <<screenVideoRef, cmpVars, encVars, audioVars>>
     \/ /\ screenVideoRef' = s
        /\ IF settings.cameraEnabled
             THEN Await(s, "webcam") /\ UNCHANGED <<cmpVars, encVars, audioVars>>
             ELSE ComposeThen(s)
  /\ last' = NoCall
  /\ UNCHANGED <<settings, isPaused, recordings, screenStream, cameraStream,
                 webcamVideoRef, closureCam, display, sysAudio, webcam, mic,
                 preview, stopPending, renderVars, clockVars>>
  /\ UNCHANGED <<editorVars, libraryVars, delivered, hookVars>>

\* the webcam getUserMedia settles (a rejection is caught and logged)
WebcamResolve(s) ==
  /\ pc[s] = "webcam"
  /\ \/ /\ webcam' = [webcam EXCEPT ![s] = "live"]
        /\ cameraStream' = s
        /\ Await(s, "webcamPlay")
        /\ UNCHANGED <<cmpVars, encVars, audioVars>>
     \/ /\ UNCHANGED <<webcam, cameraStream>>
        /\ ComposeThen(s)
  /\ last' = NoCall
  /\ UNCHANGED <<settings, isPaused, recordings, screenStream, screenVideoRef,
                 webcamVideoRef, closureCam, display, sysAudio, mic, preview,
                 stopPending, renderVars, clockVars>>
  /\ UNCHANGED <<editorVars, libraryVars, delivered, hookVars>>

\* webcamVideo.play() settles (a rejection is caught and logged)
WebcamPlayResolve(s) ==
  /\ pc[s] = "webcamPlay"
  /\ \/ webcamVideoRef' = s
     \/ UNCHANGED webcamVideoRef
  /\ ComposeThen(s)
  /\ last' = NoCall
  /\ UNCHANGED <<settings, isPaused, recordings, screenStream, cameraStream,
                 screenVideoRef, closureCam, display, sysAudio, webcam, mic,
                 preview, stopPending, renderVars, clockVars>>
  /\ UNCHANGED <<editorVars, libraryVars, delivered, hookVars>>

\* audioContext.resume() settles
ResumeResolve(s) ==
  /\ pc[s] = "resume"
  /\ \/ StartCatch(s, "audiocontext") /\ UNCHANGED <<encVars, audioVars>>
     \/ AudioThen(s)
  /\ last' = NoCall
  /\ UNCHANGED <<settings, isPaused, recordings, screenStream, cameraStream,
                 screenVideoRef, webcamVideoRef, closureCam, display, sysAudio,
                 webcam, mic, preview, stopPending, cmpVars, renderVars, clockVars>>
  /\ UNCHANGED <<editorVars, libraryVars, delivered, hookVars>>

\* a rejected microphone request taken as fatal
MicRejectedAborts(s) == StartCatch(s, "microphone") /\ UNCHANGED <<encVars, audioVars>>

\* what a rejected microphone request does to the invocation
MicRejected(s) == UNCHANGED audioMix /\ EncoderSeg(s)

\* the microphone getUserMedia settles (a rejection is caught and shown as a toast)
MicResolve(s) ==
  /\ pc[s] = "mic"
  /\ \/ /\ mic' = [mic EXCEPT ![s] = "live"]
        /\ audioMix' = [audioMix EXCEPT ![s].mic = micGain]
        /\ EncoderSeg(s)
     \/ UNCHANGED mic /\ MicRejected(s)
  /\ last' = NoCall
  /\ UNCHANGED <<settings, isPaused, recordings, screenStream, cameraStream,
                 screenVideoRef, webcamVideoRef, closureCam, display, sysAudio,
                 webcam, preview, stopPending, cmpVars, renderVars, clockVars>>
  /\ UNCHANGED <<editorVars, libraryVars, delivered, hookVars>>

\* --------------------------------------------- stop, pause, resume
\* the lifecycle state, from the React state as last set
StateIdle == ~isRecording
StateRecording == isRecording /\ ~isPaused
StatePaused == isRecording /\ isPaused

\* what last records of a call: nothing when the call was made in a state it is valid in
Invalid(op, valid, threw) == IF valid THEN NoCall ELSE [op |-> op, threw |-> threw]

EncoderActive ==
  /\ mediaRecorderRef # 0
  /\ recorder[mediaRecorderRef] \in {"recording", "paused"}

\* stopRecording without the check of the encoder's state
StopGuardAnyState == mediaRecorderRef # 0

\* the condition under which stopRecording acts
StopGuard == EncoderActive

\* stopRecording
StopBody ==
  IF StopGuard
    THEN /\ recorder' = [recorder EXCEPT ![mediaRecorderRef] = "inactive"]
         /\ stopPending' = stopPending \cup {mediaRecorderRef}
         /\ isRecording' = FALSE
         /\ isPaused' = FALSE
         /\ timers' = timers \ {timerRef}
         /\ timerDue' = timerDue \ {timerRef}
         /\ timerRef' = 0
         /\ startTimeRef' = Null
         /\ pausedDurationRef' = 0
         /\ pauseStartRef' = Null
    ELSE UNCHANGED <<recorder, stopPending, isRecording, isPaused, timers, timerDue,
                     timerRef, startTimeRef, pausedDurationRef, pauseStartRef>>

StopCall ==
  /\ StopBody
  /\ last' = Invalid("stop", EncoderActive, FALSE)
  /\ UNCHANGED <<settings, duration, recordings, screenStream, cameraStream, isUIHidden,
                 mediaRecorderRef, streamRef, durationRef, animationFrameRef,
                 screenVideoRef, webcamVideoRef, pc, failCause, closureCam,
                 display, sysAudio, webcam, mic, canvas, preview, rafLoops,
                 now, activeTime, renderVars>>
  /\ UNCHANGED <<editorVars, libraryVars, audioVars, chunksRef, delivered, hookVars>>

\* the screen video track ends; its onended handler exists once the start has completed
TrackEnded(s) ==
  /\ display[s] = "live"
  /\ display' = [display EXCEPT ![s] = "ended"]
  /\ IF pc[s] = "done"
       THEN StopBody
       ELSE UNCHANGED <<recorder, stopPending, isRecording, isPaused, timers, timerDue,
                        timerRef, startTimeRef, pausedDurationRef, pauseStartRef>>
  /\ last' = NoCall
  /\ UNCHANGED <<settings, duration, recordings, screenStream, cameraStream, isUIHidden,
                 mediaRecorderRef, streamRef, durationRef, animationFrameRef,
                 screenVideoRef, webcamVideoRef, pc, failCause, closureCam,
                 sysAudio, webcam, mic, canvas, preview, rafLoops,
                 now, activeTime, renderVars>>
  /\ UNCHANGED <<editorVars, libraryVars, audioVars, chunksRef, delivered, hookVars>>

\* the condition under which pauseRecording acts, on the values its render closed over
PauseGuard == mediaRecorderRef # 0 /\ rIsRecording /\ ~rIsPaused

\* pauseRecording; MediaRecorder.pause throws on an inactive recorder, before anything is set
PauseCall ==
  /\ IF PauseGuard
       THEN IF recorder[mediaRecorderRef] = "inactive"
              THEN /\ last' = Invalid("pause", StateRecording, TRUE)
                   /\ UNCHANGED <<recorder, isPaused, pauseStartRef>>
              ELSE /\ last' = Invalid("pause", StateRecording, FALSE)
                   /\ recorder' = [recorder EXCEPT ![mediaRecorderRef] = "paused"]
                   /\ isPaused' = TRUE
                   /\ pauseStartRef' = Some(now)
       ELSE /\ last' = NoCall
            /\ UNCHANGED <<recorder, isPaused, pauseStartRef>>
  /\ UNCHANGED <<settings, isRecording, duration, recordings, screenStream, cameraStream,
                 isUIHidden, mediaRecorderRef, timerRef, streamRef, durationRef,
                 startTimeRef, pausedDurationRef, animationFrameRef, screenVideoRef,
                 webcamVideoRef, pc, failCause, closureCam, display, sysAudio, webcam,
                 mic, canvas, preview, stopPending, timers, rafLoops,
                 renderVars, clockVars>>
  /\ UNCHANGED <<editorVars, libraryVars, audioVars, chunksRef, delivered, hookVars>>

\* the condition under which resumeRecording acts, on the values its render closed over
ResumeGuard == mediaRecorderRef # 0 /\ rIsRecording /\ rIsPaused

\* resumeRecording; MediaRecorder.resume throws on an inactive recorder
ResumeCall ==
  /\ IF ResumeGuard
       THEN IF recorder[mediaRecorderRef] = "inactive"
              THEN /\ last' = Invalid("resume", StatePaused, TRUE)
                   /\ UNCHANGED <<recorder, isPaused, pausedDurationRef, pauseStartRef>>
              ELSE /\ last' = Invalid("resume", StatePaused, FALSE)
                   /\ recorder' = [recorder EXCEPT ![mediaRecorderRef] = "recording"]
                   /\ isPaused' = FALSE
                   /\ IF pauseStartRef # Null
                        THEN /\ pausedDurationRef' = pausedDurationRef + (now - pauseStartRef[1])
                             /\ pauseStartRef' = Null
                        ELSE UNCHANGED <<pausedDurationRef, pauseStartRef>>
       ELSE /\ last' = NoCall
            /\ UNCHANGED <<recorder, isPaused, pausedDurationRef, pauseStartRef>>
  /\ UNCHANGED <<settings, isRecording, duration, recordings, screenStream, cameraStream,
                 isUIHidden, mediaRecorderRef, timerRef, streamRef, durationRef,
                 startTimeRef, animationFrameRef, screenVideoRef,
                 webcamVideoRef, pc, failCause, closureCam, display, sysAudio, webcam,
                 mic, canvas, preview, stopPending, timers, rafLoops,
                 renderVars, clockVars>>
  /\ UNCHANGED <<editorVars, libraryVars, audioVars, chunksRef, delivered, hookVars>>

\* -------------------------------------------- the encoder's stop event
\* cameraStream as the invocation closed over it: stop its tracks, clear the state
StopClosureCamera(s) ==
  LET c == closureCam[s] IN
  /\ webcam' = IF c \in Sessions /\ webcam[c] = "live"
                 THEN [webcam EXCEPT ![c] = "stopped"] ELSE webcam
  /\ preview' = IF c = PreviewStream THEN "stopped" ELSE preview
  /\ cameraStream' = IF c # 0 THEN 0 ELSE cameraStream

\* saveRecording up to its first await
SaveRequest(recording) == [rec |-> recording, pc |-> "open"]

\* mediaRecorder.onstop of session s
StopEvent(s) ==
  /\ s \in stopPending
  /\ stopPending' = stopPending \ {s}
  /\ LET newRecording == [sid |-> s, duration |-> durationRef, active |-> activeTime[s],
                           blob |-> chunksRef]
     IN /\ saving' = saving \cup {SaveRequest(newRecording)}
        /\ recordings' = <<newRecording>> \o recordings
  /\ rafLoops' = rafLoops \ {animationFrameRef}
  /\ animationFrameRef' = 0
  /\ display' = [display EXCEPT ![s] = "stopped"]
  /\ canvas' = IF streamRef # 0 THEN [canvas EXCEPT ![streamRef] = "stopped"] ELSE canvas
  /\ streamRef' = 0
  /\ screenVideoRef' = 0
  /\ webcamVideoRef' = 0
  /\ StopClosureCamera(s)
  /\ screenStream' = 0
  /\ isUIHidden' = FALSE
  /\ last' = NoCall
  /\ UNCHANGED <<settings, isRecording, isPaused, duration, mediaRecorderRef, timerRef,
                 durationRef, startTimeRef, pausedDurationRef, pauseStartRef,
                 pc, failCause, closureCam, sysAudio, mic, recorder, timers,
                 renderVars, clockVars>>
  /\ UNCHANGED <<editorVars, storeVars, audioVars, chunksRef, delivered, hookVars>>

\* ------------------------------------------------ chunks, timer, frames, render
MaxChunks == 3
ChunkSizes == {0, 1}
\* the number of chunks the encoders of sessions 1..s have delivered
RECURSIVE DeliveredUpTo(_)
DeliveredUpTo(s) == IF s = 0 THEN 0 ELSE Len(delivered[s]) + DeliveredUpTo(s - 1)
Delivered == DeliveredUpTo(MaxSessions)

\* ondataavailable as written: a chunk of no bytes is not kept
KeepChunk(size) == size > 0

\* ondataavailable of session s: the encoder delivers its next chunk, every timeslice
\* while it records and once more between stop() and the stop event
DataAvailable(s, size) ==
  /\ recorder[s] = "recording" \/ s \in stopPending
  /\ Delivered < MaxChunks
  /\ LET chunk == [sid |-> s, seq |-> Len(delivered[s]) + 1, size |-> size]
     IN /\ delivered' = [delivered EXCEPT ![s] = Append(delivered[s], chunk)]
        /\ chunksRef' = IF KeepChunk(size) THEN Append(chunksRef, chunk) ELSE chunksRef
  /\ last' = NoCall
  /\ UNCHANGED <<settings, isRecording, isPaused, duration, recordings, screenStream,
                 cameraStream, isUIHidden, mediaRecorderRef, timerRef, streamRef,
                 durationRef, startTimeRef, pausedDurationRef, pauseStartRef,
                 animationFrameRef, screenVideoRef, webcamVideoRef, pc, failCause,
                 closureCam, display, sysAudio, webcam, mic, canvas, preview, recorder,
                 stopPending, timers, rafLoops, renderVars, clockVars>>
  /\ UNCHANGED <<editorVars, libraryVars, audioVars, hookVars>>

Elapsed == ((now - startTimeRef[1] - pausedDurationRef) * TimerMs) \div MsPerSecond

\* the setInterval callback of session s
TimerFire(s) ==
  /\ s \in timers /\ s \in timerDue
  /\ timerDue' = timerDue \ {s}
  /\ IF startTimeRef # Null /\ pauseStartRef = Null
       THEN duration' = Elapsed /\ durationRef' = Elapsed
       ELSE UNCHANGED <<duration, durationRef>>
  /\ last' = NoCall
  /\ UNCHANGED <<settings, isRecording, isPaused, recordings, screenStream, cameraStream,
                 isUIHidden, mediaRecorderRef, timerRef, streamRef, startTimeRef,
                 pausedDurationRef, pauseStartRef, animationFrameRef, screenVideoRef,
                 webcamVideoRef, pc, failCause, closureCam, display, sysAudio, webcam,
                 mic, canvas, preview, recorder, stopPending, timers, rafLoops,
                 now, activeTime, renderVars>>
  /\ UNCHANGED <<editorVars, libraryVars, audioVars, chunksRef, delivered, hookVars>>

\* drawCompositeFrame run as the animation frame callback of loop l: it requests the next frame
CompositorTick(l) ==
  /\ l \in rafLoops
  /\ animationFrameRef' = l
  /\ last' = NoCall
  /\ UNCHANGED <<settings, isRecording, isPaused, duration, recordings, screenStream,
                 cameraStream, isUIHidden, mediaRecorderRef, timerRef, streamRef,
                 durationRef, startTimeRef, pausedDurationRef, pauseStartRef,
                 screenVideoRef, webcamVideoRef, pc, failCause, closureCam,
                 display, sysAudio, webcam, mic, canvas, preview, recorder,
                 stopPending, timers, rafLoops, renderVars, clockVars>>
  /\ UNCHANGED <<editorVars, libraryVars, audioVars, chunksRef, delivered, hookVars>>

Rendered ==
  /\ rIsRecording = isRecording
  /\ rIsPaused = isPaused
  /\ rCameraStream = cameraStream

\* React commits the pending state: callbacks are re-created over the new values
Render ==
  /\ ~Rendered
  /\ rIsRecording' = isRecording
  /\ rIsPaused' = isPaused
  /\ rCameraStream' = cameraStream
  /\ last' = NoCall
  /\ UNCHANGED <<settings, isRecording, isPaused, duration, recordings, screenStream,
                 cameraStream, isUIHidden, mediaRecorderRef, timerRef, streamRef,
                 durationRef, startTimeRef, pausedDurationRef, pauseStartRef,
                 animationFrameRef, screenVideoRef, webcamVideoRef, pc, failCause,
                 closureCam, display, sysAudio, webcam, mic, canvas, preview, recorder,
                 stopPending, timers, rafLoops, clockVars>>
  /\ UNCHANGED <<editorVars, libraryVars, audioVars, chunksRef, delivered, hookVars>>

\* one timer period of wall-clock time passes while an encoder runs; due timer callbacks, the pending
\* render and pending stop events are delivered within one timer period
Advance ==
  /\ now + 1 <= MaxTime
  /\ \E s \in Sessions : recorder[s] \in {"recording", "paused"}
  /\ timerDue \cap timers = {}
  /\ Rendered
  /\ stopPending = {}
  /\ now' = now + 1
  /\ timerDue' = timers
  /\ activeTime' = [s \in Sessions |->
                      IF recorder[s] = "recording" THEN activeTime[s] + 1 ELSE activeTime[s]]
  /\ last' = NoCall
  /\ UNCHANGED <<settings, isRecording, isPaused, duration, recordings, screenStream,
                 cameraStream, isUIHidden, mediaRecorderRef, timerRef, streamRef,
                 durationRef, startTimeRef, pausedDurationRef, pauseStartRef,
                 animationFrameRef, screenVideoRef, webcamVideoRef, pc, failCause,
                 closureCam, display, sysAudio, webcam, mic, canvas, preview, recorder,
                 stopPending, timers, rafLoops, renderVars>>
  /\ UNCHANGED <<editorVars, libraryVars, audioVars, chunksRef, delivered, hookVars>>

\* ------------------------------------------------------------- the editor
\* editor times are counted in steps of the trim sliders (0.1 s)
MinTrimGap == 5
MaxDuration == 8
Durations == (MinTrimGap + 1)..MaxDuration

Min(a, b) == IF a <= b THEN a ELSE b
Max(a, b) == IF a >= b THEN a ELSE b

\* useState of videoState and trimState: no asset loaded
TrimIdle ==
  /\ videoDuration = 0 /\ currentTime = 0
  /\ trimState = [startTime |-> 0, endTime |-> 0]

\* loadVideoFromUrl, once the metadata carries a finite positive duration
LoadVideo(d) ==
  /\ videoDuration' = d
  /\ currentTime' = 0
  /\ trimState' = [startTime |-> 0, endTime |-> d]
  /\ UNCHANGED <<sessionVars, exportVars, overlayVars, libraryVars, hookVars>>

\* onValueChange of the start slider
StartSlider(v) ==
  /\ videoDuration > 0
  /\ Min(v, trimState.endTime - MinTrimGap) >= -MaxDuration   \* keeps the state space finite
  /\ trimState' = [trimState EXCEPT !.startTime = Min(v, trimState.endTime - MinTrimGap)]
  /\ UNCHANGED <<videoDuration, currentTime>>
  /\ UNCHANGED <<sessionVars, exportVars, overlayVars, libraryVars, hookVars>>

\* onValueChange of the end slider
EndSlider(v) ==
  /\ videoDuration > 0
  /\ trimState' = [trimState EXCEPT !.endTime = Max(v, trimState.startTime + MinTrimGap)]
  /\ UNCHANGED <<videoDuration, currentTime>>
  /\ UNCHANGED <<sessionVars, exportVars, overlayVars, libraryVars, hookVars>>

\* onClick of Set Start
SetStart ==
  /\ videoDuration > 0
  /\ trimState' = [startTime |-> currentTime, endTime |-> trimState.endTime]
  /\ UNCHANGED <<videoDuration, currentTime>>
  /\ UNCHANGED <<sessionVars, exportVars, overlayVars, libraryVars, hookVars>>

\* onClick of Set End
SetEnd ==
  /\ videoDuration > 0
  /\ trimState' = [startTime |-> trimState.startTime, endTime |-> currentTime]
  /\ UNCHANGED <<videoDuration, currentTime>>
  /\ UNCHANGED <<sessionVars, exportVars, overlayVars, libraryVars, hookVars>>

\* seek
Seek(time) ==
  /\ videoDuration > 0
  /\ currentTime' = Max(trimState.startTime, Min(time, trimState.endTime))
  /\ UNCHANGED <<videoDuration, trimState>>
  /\ UNCHANGED <<sessionVars, exportVars, overlayVars, libraryVars, hookVars>>

\* handleTimeUpdate: playback reached video time `time`
TimeUpdate(time) ==
  /\ videoDuration > 0
  /\ currentTime' = IF trimState.endTime > 0 /\ time >= trimState.endTime
                      THEN trimState.startTime ELSE time
  /\ UNCHANGED <<videoDuration, trimState>>
  /\ UNCHANGED <<sessionVars, exportVars, overlayVars, libraryVars, hookVars>>

\* ---------------------------------------------------------------- export
\* speeds and playback rates are counted in percent, drawn frames in 1/30 s
MaxExports == 2
frameRate == 30
FramesPerTenth == frameRate \div 10
EXPORT_SPEEDS == {100, 125, 150, 200}
PriorVideoStates == {[muted |-> FALSE, playbackRate |-> 100],
                     [muted |-> TRUE, playbackRate |-> 50]}
EditorVersions == {"current", "earlier"}
FrameMechanisms == {"rvfc", "raf"}
BlobSizes == {0, 1}
EditedId == 0
NoRun == [blob |-> Null, downloaded |-> FALSE, added |-> FALSE, toast |-> "none"]
\* frame is the source time of the picture the element shows: while a seek is in
\* progress it is still the one of the position before the seek
NoVideo == [currentTime |-> 0, paused |-> TRUE, ended |-> FALSE,
            muted |-> FALSE, playbackRate |-> 100, seeking |-> FALSE, frame |-> 0]

\* video.currentTime = time: the position is set and the element seeks when it moved
SeekTo(v, time) ==
  [v EXCEPT !.currentTime = time, !.seeking = v.seeking \/ v.currentTime # time]

\* the seek has completed: the picture of the new position is shown
Seeked(v) == [v EXCEPT !.seeking = FALSE, !.frame = v.currentTime]

ExportIdle ==
  /\ editorVersion = "current" /\ exportPc = "idle" /\ isExporting = FALSE
  /\ exportProgress = 0 /\ exports = 0 /\ exportRun = NoRun
  /\ exportSpeed = 100 /\ frameMech = "rvfc"
  /\ video = NoVideo /\ previous = [muted |-> FALSE, playbackRate |-> 100]
  /\ framePending = FALSE /\ newFrame = FALSE /\ timeupdateDue = FALSE
  /\ drawn = Null /\ frameIndex = 0 /\ metadataWait = 0

\* the trim range exportVideo encodes
ExportStartTime == Max(0, Min(trimState.startTime, videoDuration))
ExportEndTime ==
  IF trimState.endTime # 0 /\ trimState.endTime > ExportStartTime
    THEN Min(trimState.endTime, videoDuration) ELSE videoDuration
TotalDuration ==
  IF editorVersion = "current"
    THEN ExportEndTime - ExportStartTime
    ELSE trimState.endTime - trimState.startTime
\* earlier version: Math.ceil(totalDuration * frameRate)
totalFrames == TotalDuration * FramesPerTenth

\* exportedDuration, in tenths of a second, as a fraction
ExportedDuration ==
  IF editorVersion = "current"
    THEN [num |-> TotalDuration * 100, den |-> exportSpeed]
    ELSE [num |-> TotalDuration, den |-> 1]

\* the frame of source time f (in 1/30 s) is drawn on the export canvas
Draw(f) == IF drawn = Null THEN <<f, f>> ELSE <<Min(drawn[1], f), Max(drawn[2], f)>>

\* the progress tick publishes for source time t
Progress(t) == Max(0, Min(100, ((t - ExportStartTime) * 100) \div TotalDuration))

\* finally of exportVideo leaves the element with every flag it does not restore
RestoreNothing == video

\* finally of exportVideo: the current version restores muted and playbackRate
RestoreVideo ==
  IF editorVersion = "current"
    THEN [video EXCEPT !.muted = previous.muted, !.playbackRate = previous.playbackRate]
    ELSE video

\* catch and finally of exportVideo
ExportCatch ==
  /\ exportRun' = [exportRun EXCEPT !.toast = "failed"]
  /\ exportPc' = "settled"
  /\ isExporting' = FALSE
  /\ exportProgress' = 0
  /\ video' = RestoreVideo
  /\ framePending' = FALSE
  /\ UNCHANGED recordings

\* exportVideo up to its first await: the current version waits for the metadata,
\* the earlier one starts the encoder and its seek loop; the user asks for another export
\* when the element has come to rest after the last one
ExportStart ==
  /\ exportPc \in {"idle", "settled"}
  /\ exports < MaxExports
  /\ ~video.seeking /\ ~timeupdateDue
  /\ exports' = exports + 1
  /\ \/ /\ exportRun' = [NoRun EXCEPT !.toast = "failed"]       \* video or canvas missing
        /\ exportPc' = "settled"
        /\ UNCHANGED <<isExporting, exportProgress, video, previous, drawn, frameIndex>>
     \/ /\ videoDuration > 0
        /\ isExporting' = TRUE
        /\ exportProgress' = 0
        /\ exportRun' = NoRun
        /\ drawn' = Null
        /\ frameIndex' = 0
        /\ IF editorVersion = "current"
             THEN /\ previous' = [muted |-> video.muted, playbackRate |-> video.playbackRate]
                  /\ exportPc' = "metadata"
                  /\ UNCHANGED video
             ELSE /\ video' = [SeekTo(video, trimState.startTime) EXCEPT !.muted = TRUE]
                  /\ exportPc' = IF totalFrames > 0 THEN "encoding" ELSE "stopping"
                  /\ UNCHANGED previous
  /\ metadataWait' = 0
  /\ UNCHANGED <<editorVersion, exportSpeed, frameMech, framePending, newFrame,
                 timeupdateDue, recordings, trimVars>>
  /\ UNCHANGED <<captureVars, overlayVars, libraryVars, hookVars>>

\* after the seek promise: the element is unmuted and set to the export speed, the frame
\* it shows is drawn, the encoder is started and video.play() is called
StartEncoding(v) ==
  /\ video' = [v EXCEPT !.ended = FALSE, !.muted = FALSE, !.playbackRate = exportSpeed]
  /\ drawn' = Draw(v.frame * FramesPerTenth)
  /\ exportPc' = "play"

\* a seek promise that resolves on the seeked event only
SeekAwaitSeeked ==
  /\ exportPc' = "seek"
  /\ video' = [video EXCEPT !.seeking = TRUE]
  /\ UNCHANGED drawn

\* "Seek reliably": video.currentTime = startTime, then the promise resolves at once when
\* the element reports a position within 0.01 s of startTime, and on the seeked event
\* otherwise; an element reports the new position as soon as it is set, or the old one
\* until the seek has completed
SeekReliably ==
  IF video.currentTime = ExportStartTime
    THEN StartEncoding(video)
    ELSE \/ StartEncoding(SeekTo(video, ExportStartTime))
         \/ SeekAwaitSeeked

\* the timeout raced against the metadata events, in seconds
MetadataTimeoutS == 8
\* the wait is observed twice, half way and when the timer is due
MetadataWaitStep == MetadataTimeoutS \div 2
\* the promises ensureVideoReady races
MetadataRaceNoTimer == {"events"}
MetadataRace == {"events", "timer"}

\* ensureVideoReady settles on the element: the metadata is there at the call or a
\* loadedmetadata, durationchange or canplay event brings it, or the error event comes;
\* on success the trim range is validated and the seek is issued
MetadataSettle ==
  /\ exportPc = "metadata"
  /\ \/ ExportCatch                                   \* error event
        /\ UNCHANGED drawn
     \/ IF TotalDuration <= 0
          THEN ExportCatch /\ UNCHANGED drawn          \* Invalid trim range
          ELSE /\ SeekReliably
               /\ UNCHANGED <<isExporting, exportProgress, exportRun, recordings,
                              framePending>>
  /\ metadataWait' = 0
  /\ UNCHANGED <<editorVersion, exportSpeed, frameMech, previous, newFrame, timeupdateDue,
                 frameIndex, exports, trimVars>>
  /\ UNCHANGED <<captureVars, overlayVars, libraryVars, hookVars>>

\* time passes while ensureVideoReady waits
MetadataWait ==
  /\ exportPc = "metadata"
  /\ metadataWait < MetadataTimeoutS
  /\ metadataWait' = metadataWait + MetadataWaitStep
  /\ UNCHANGED <<editorVersion, exportSpeed, frameMech, video, previous, framePending,
                 newFrame, timeupdateDue, drawn, frameIndex, exportPc, isExporting,
                 exportProgress, exports, exportRun, recordings, trimVars>>
  /\ UNCHANGED <<captureVars, overlayVars, libraryVars, hookVars>>

\* the timer of the race fires while no event has settled it: ensureVideoReady rejects
MetadataTimeout ==
  /\ exportPc = "metadata"
  /\ "timer" \in MetadataRace
  /\ metadataWait = MetadataTimeoutS
  /\ ExportCatch
  /\ UNCHANGED <<editorVersion, metadataWait, exportSpeed, frameMech, previous, newFrame,
                 timeupdateDue, drawn, frameIndex, exports, trimVars>>
  /\ UNCHANGED <<captureVars, overlayVars, libraryVars, hookVars>>

\* the seeked event of the seek to the start of the range, or the error event; on seeked
\* the first frame is drawn, the encoder is started and video.play() is called
SeekSettle ==
  /\ exportPc = "seek"
  /\ \/ /\ ExportCatch
        /\ UNCHANGED drawn
     \/ /\ StartEncoding(Seeked([video EXCEPT !.currentTime = ExportStartTime]))
        /\ UNCHANGED <<isExporting, exportProgress, exportRun, recordings, framePending>>
  /\ UNCHANGED <<editorVersion, metadataWait, exportSpeed, frameMech, previous, newFrame, timeupdateDue,
                 frameIndex, exports, trimVars>>
  /\ UNCHANGED <<captureVars, overlayVars, libraryVars, hookVars>>

\* tick, on the element state v: draw the frame the element shows, publish the progress
\* of the current source time, then stop at the end of the range or ask for the next
\* frame callback
Tick(v) ==
  LET t == v.currentTime IN
    /\ drawn' = Draw(v.frame * FramesPerTenth)
    /\ exportProgress' = Progress(t)
    /\ IF t >= ExportEndTime \/ v.ended
         THEN /\ video' = [v EXCEPT !.paused = TRUE]
              /\ exportPc' = "stopping"
              /\ framePending' = FALSE
              /\ UNCHANGED newFrame
         ELSE /\ video' = v
              /\ framePending' = TRUE
              /\ newFrame' = FALSE
              /\ exportPc' = "encoding"

\* video.play() settles: then(tick), or catch(stopRecording, reject)
PlaySettle ==
  /\ exportPc = "play"
  /\ \/ /\ ExportCatch
        /\ UNCHANGED <<drawn, newFrame>>
     \/ /\ Tick([video EXCEPT !.paused = FALSE])
        /\ UNCHANGED <<isExporting, exportRun, recordings>>
  /\ UNCHANGED <<editorVersion, metadataWait, exportSpeed, frameMech, previous, timeupdateDue,
                 frameIndex, exports, trimVars>>
  /\ UNCHANGED <<captureVars, overlayVars, libraryVars, hookVars>>

\* the browser plays the source: a tenth of a second of source time passes, a new frame
\* is presented and a timeupdate event is queued; at the end of the media the element
\* is ended and paused
VideoPlay ==
  /\ editorVersion = "current" /\ exportPc = "encoding"
  /\ ~video.paused /\ ~video.ended /\ ~video.seeking
  /\ LET t == Min(video.currentTime + 1, videoDuration) IN
       video' = [video EXCEPT !.currentTime = t, !.frame = t, !.ended = t >= videoDuration,
                              !.paused = t >= videoDuration]
  /\ newFrame' = TRUE
  /\ timeupdateDue' = TRUE
  /\ UNCHANGED <<editorVersion, metadataWait, exportSpeed, frameMech, previous, framePending, drawn,
                 frameIndex, exportPc, isExporting, exportProgress, exports, exportRun,
                 recordings, trimVars>>
  /\ UNCHANGED <<captureVars, overlayVars, libraryVars, hookVars>>

\* the frame callback tick registered runs: requestVideoFrameCallback calls tick when a
\* new frame was presented, the animation frame stops the encoder when the video is paused
FrameCallback ==
  /\ editorVersion = "current" /\ exportPc = "encoding"
  /\ framePending
  /\ frameMech = "rvfc" => newFrame
  /\ IF frameMech = "raf" /\ video.paused
       THEN /\ exportPc' = "stopping"
            /\ framePending' = FALSE
            /\ UNCHANGED <<video, drawn, exportProgress, newFrame>>
       ELSE Tick(video)
  /\ UNCHANGED <<editorVersion, metadataWait, exportSpeed, frameMech, previous, timeupdateDue,
                 frameIndex, isExporting, exports, exportRun, recordings, trimVars>>
  /\ UNCHANGED <<captureVars, overlayVars, libraryVars, hookVars>>

\* handleTimeUpdate, run for the timeupdate event of the playing source: at the trim end
\* it pauses the element and seeks it back to the trim start
ExportTimeUpdate ==
  /\ timeupdateDue
  /\ timeupdateDue' = FALSE
  /\ IF trimState.endTime > 0 /\ video.currentTime >= trimState.endTime
       THEN /\ video' = [SeekTo(video, trimState.startTime) EXCEPT !.paused = TRUE,
                                                                 !.ended = FALSE]
            /\ currentTime' = trimState.startTime
       ELSE /\ currentTime' = video.currentTime
            /\ UNCHANGED video
  /\ UNCHANGED <<editorVersion, metadataWait, exportSpeed, frameMech, previous, framePending, drawn,
                 newFrame,
                 frameIndex, exportPc, isExporting, exportProgress, exports, exportRun,
                 recordings, videoDuration, trimState>>
  /\ UNCHANGED <<captureVars, overlayVars, libraryVars, hookVars>>

\* a seek nobody awaits completes: the picture of the new position is presented
SeekDone ==
  /\ video.seeking /\ exportPc \notin {"seek", "idle"}
  /\ editorVersion = "current"
  /\ video' = Seeked(video)
  /\ newFrame' = TRUE
  /\ UNCHANGED <<editorVersion, metadataWait, exportSpeed, frameMech, previous, framePending,
                 timeupdateDue, drawn, frameIndex, exportPc, isExporting, exportProgress,
                 exports, exportRun, recordings, trimVars>>
  /\ UNCHANGED <<captureVars, overlayVars, libraryVars, hookVars>>

\* earlier version: video.onseeked of frame i of the seek loop draws the frame and
\* publishes the progress; after the last frame the encoder is stopped
SeekedFrame ==
  /\ editorVersion = "earlier" /\ exportPc = "encoding"
  /\ frameIndex < totalFrames
  /\ LET f == trimState.startTime * FramesPerTenth + frameIndex IN
       /\ video' = Seeked([video EXCEPT !.currentTime = f \div FramesPerTenth])
       /\ drawn' = Draw(f)
  /\ exportProgress' = ((frameIndex + 1) * 100) \div totalFrames
  /\ frameIndex' = frameIndex + 1
  /\ exportPc' = IF frameIndex + 1 < totalFrames THEN "encoding" ELSE "stopping"
  /\ UNCHANGED <<editorVersion, metadataWait, exportSpeed, frameMech, previous, framePending, newFrame,
                 timeupdateDue, isExporting, exports, exportRun, recordings, trimVars>>
  /\ UNCHANGED <<captureVars, overlayVars, libraryVars, hookVars>>

\* what exportVideo does with a blob of no bytes
EmptyBlob(size) ==
  IF editorVersion = "current" THEN size = 0 ELSE FALSE

\* the encoder's stop event resolves the blob; the rest of exportVideo runs: the empty
\* check, the reset of the element, the download, addRecording, the toast, finally
ExportSettle(size) ==
  /\ exportPc = "stopping"
  /\ IF EmptyBlob(size)
       THEN /\ exportRun' = [exportRun EXCEPT !.blob = Some(size), !.toast = "failed"]
            /\ video' = RestoreVideo
            /\ UNCHANGED <<recordings, saving>>
       ELSE /\ exportRun' = [blob |-> Some(size), downloaded |-> TRUE, added |-> TRUE,
                             toast |-> "complete"]
            /\ video' = IF editorVersion = "current"
                          THEN [SeekTo(RestoreVideo, ExportStartTime)
                                  EXCEPT !.paused = TRUE, !.ended = FALSE]
                          ELSE video
            /\ LET newRecording == [sid |-> EditedId, duration |-> ExportedDuration,
                                     active |-> 0]
               IN /\ saving' = saving \cup {SaveRequest(newRecording)}
                  /\ recordings' = <<newRecording>> \o recordings
  /\ exportPc' = "settled"
  /\ isExporting' = FALSE
  /\ exportProgress' = 0
  /\ framePending' = FALSE
  /\ UNCHANGED <<editorVersion, metadataWait, exportSpeed, frameMech, previous, newFrame, timeupdateDue,
                 drawn, frameIndex, exports, trimVars>>
  /\ UNCHANGED <<captureVars, overlayVars, storeVars, hookVars>>

\* MediaRecorder error: the promise of the blob rejects, the stop event that follows
\* cancels the frame callback
ExportError ==
  /\ exportPc \in {"encoding", "stopping"}
  /\ ExportCatch
  /\ UNCHANGED <<editorVersion, metadataWait, exportSpeed, frameMech, previous, newFrame, timeupdateDue,
                 drawn, frameIndex, exports, trimVars>>
  /\ UNCHANGED <<captureVars, overlayVars, libraryVars, hookVars>>

\* ----------------------------------------------- overlay geometry
\* lengths are counted in 1/10000 px, so that 0.12 * 1.33 stays exact
Scale == 10000
padding == 20
AspectPercent == 133
CanvasWidths == {320, 640, 1280, 1920, 2560, 3840}
CanvasHeights == {240, 480, 720, 1080, 1440, 2160}
WebcamSizes == {"small", "medium", "large"}
WebcamCorners == {"bottom-left", "top-right", "top-left", "bottom-right"}
CameraShapes == {"circle", "rounded", "square"}

\* sizeMultipliers, in percent
sizeMultipliers(size) ==
  CASE size = "small" -> 12 [] size = "medium" -> 18 [] size = "large" -> 24

\* dims of drawCompositeFrame (getWebcamDimensions of useCanvasCompositor computes the same)
WebcamDims(cfg) ==
  LET baseSize == Min(cfg.width, cfg.height) * sizeMultipliers(cfg.webcamSize) * 100
  IN IF cfg.cameraShape = "circle"
       THEN [width |-> baseSize, height |-> baseSize]
       ELSE [width |-> Min(cfg.width, cfg.height) * sizeMultipliers(cfg.webcamSize)
                         * AspectPercent,
             height |-> baseSize]

\* x anchored on the right without the overlay's width
OverlayXNoWidth(cfg, dims) ==
  IF cfg.webcamCorner \in {"bottom-left", "top-left"}
    THEN padding * Scale
    ELSE cfg.width * Scale - padding * Scale

\* x of the switch on settings.webcamCorner
OverlayX(cfg, dims) ==
  IF cfg.webcamCorner \in {"bottom-left", "top-left"}
    THEN padding * Scale
    ELSE cfg.width * Scale - dims.width - padding * Scale

\* y of the switch on settings.webcamCorner
OverlayY(cfg, dims) ==
  IF cfg.webcamCorner \in {"top-right", "top-left"}
    THEN padding * Scale
    ELSE cfg.height * Scale - dims.height - padding * Scale

\* the overlay fields of defaultSettings, on a 1080p canvas; no compositor loop runs
DefaultOverlayCfg ==
  [width |-> 1920, height |-> 1080, webcamSize |-> "medium",
   webcamCorner |-> "bottom-right", cameraShape |-> "circle", cameraEnabled |-> FALSE,
   webcamMirror |-> TRUE, webcamBorder |-> TRUE, webcamShadow |-> TRUE]

OverlayIdle ==
  /\ overlayCfg = DefaultOverlayCfg
  /\ loopCfg = Null
  /\ overlayRect = Null

\* the settings drawCompositeFrame depends on, as one render holds them
OverlaySettings(cfg) ==
  [webcamSize |-> cfg.webcamSize, webcamCorner |-> cfg.webcamCorner,
   cameraShape |-> cfg.cameraShape, cameraEnabled |-> cfg.cameraEnabled,
   webcamMirror |-> cfg.webcamMirror, webcamBorder |-> cfg.webcamBorder,
   webcamShadow |-> cfg.webcamShadow]

\* the overlay drawCompositeFrame draws on the canvas with the settings s: none when the
\* camera is not enabled
OverlayOf(s) ==
  LET cfg == [width |-> overlayCfg.width, height |-> overlayCfg.height,
              webcamSize |-> s.webcamSize, webcamCorner |-> s.webcamCorner,
              cameraShape |-> s.cameraShape]
      dims == WebcamDims(cfg)
  IN IF s.cameraEnabled
       THEN Some([x |-> OverlayX(cfg, dims), y |-> OverlayY(cfg, dims),
                  width |-> dims.width, height |-> dims.height,
                  shape |-> s.cameraShape, mirror |-> s.webcamMirror,
                  border |-> s.webcamBorder, shadow |-> s.webcamShadow])
       ELSE Null

\* drawCompositeFrame run by the animation frame it requested: the callback is the
\* function of the render that started the loop, with the settings of that render
DrawOverlay ==
  /\ loopCfg # Null
  /\ overlayRect' = OverlayOf(loopCfg[1])
  /\ UNCHANGED <<overlayCfg, loopCfg>>
  /\ UNCHANGED <<sessionVars, trimVars, exportVars, libraryVars, hookVars>>

\* updateSettings with a new size class, corner and shape
UpdateSettings(size, corner, shape) ==
  /\ overlayCfg' = [overlayCfg EXCEPT !.webcamSize = size, !.webcamCorner = corner,
                                      !.cameraShape = shape]
  /\ UNCHANGED <<loopCfg, overlayRect>>
  /\ UNCHANGED <<sessionVars, trimVars, exportVars, libraryVars, hookVars>>

OverlayFlags == {"cameraEnabled", "webcamMirror", "webcamBorder", "webcamShadow"}

\* updateSettings({ [key]: !settings[key] }) of a switch
ToggleSetting(key) ==
  /\ overlayCfg' = [overlayCfg EXCEPT ![key] = ~overlayCfg[key]]
  /\ UNCHANGED <<loopCfg, overlayRect>>
  /\ UNCHANGED <<sessionVars, trimVars, exportVars, libraryVars, hookVars>>

\* ---------------------------------------------------------------- library
\* the recordings list of the provider and its IndexedDB object store
MaxRecordings == 2
MaxLoads == 2
MaxOverlays == 2
RecordingIds == 1..MaxRecordings
\* the recordings handed to addRecording: byte length, duration, resolution
RecordingSamples == {[bytes |-> 1, duration |-> 0, resolution |-> "720p"],
                     [bytes |-> 2, duration |-> 3, resolution |-> "1080p"]}
EmptyStore == [id \in RecordingIds |-> Null]

\* nothing stored, nothing pending, the list loaded
LibraryIdle ==
  /\ store = EmptyStore /\ saving = {} /\ deleting = {}
  /\ loadPc = "done" /\ loads = 1 /\ loaded = <<>> /\ nextId = 1
  /\ revokes = [u \in 1..(MaxRecordings * (MaxLoads + 1)) |-> 0]
  /\ saved = EmptyStore /\ deleted = {} /\ removed = {} /\ expect = {}
  /\ canvasOverlays = {} /\ heldOverlays = Null /\ nextOverlay = 1
  /\ attached = [id \in RecordingIds |-> {}]

\* storedRecording, built by saveRecording from its argument
ToStored(recording) ==
  [id |-> recording.id, blobData |-> recording.blob, duration |-> recording.duration,
   timestamp |-> <<"ISO", recording.timestamp>>, resolution |-> recording.resolution,
   size |-> recording.size]

\* the record loadRecordings builds from a stored one, with a fresh object URL
FromStored(stored, url) ==
  [id |-> stored.id, url |-> url, blob |-> stored.blobData, duration |-> stored.duration,
   timestamp |-> stored.timestamp[2], resolution |-> stored.resolution,
   size |-> stored.size]

\* store.put: the object store is keyed by id
StorePut(s, stored) == [s EXCEPT ![stored.id] = Some(stored)]

\* a delete that empties the object store
StoreClear(s, id) == EmptyStore

\* store.delete(id)
StoreDelete(s, id) == [s EXCEPT ![id] = Null]

\* the object URL loadRecordings creates for the record of id, in the current document
LoadedUrl(id) == loads * MaxRecordings + id

\* store.getAll mapped and sorted by timestamp, newest first; ids are issued in time order
RECURSIVE LoadFrom(_)
LoadFrom(id) ==
  IF id = 0 THEN <<>>
  ELSE (IF store[id] = Null THEN <<>> ELSE <<FromStored(store[id][1], LoadedUrl(id))>>)
         \o LoadFrom(id - 1)
LoadResult == LoadFrom(MaxRecordings)

\* prev.filter(r => r.id !== id)
RECURSIVE Without(_, _)
Without(list, id) ==
  IF list = <<>> THEN <<>>
  ELSE (IF Head(list).id = id THEN <<>> ELSE <<Head(list)>>) \o Without(Tail(list), id)

\* the URLs of the listed recordings with that id
UrlsOf(list, id) == {list[i].url : i \in {j \in DOMAIN list : list[j].id = id}}

\* the canvas overlays of a listed recording
OverlaysOf(recording) ==
  IF "canvasOverlays" \in DOMAIN recording THEN recording.canvasOverlays ELSE {}

\* addCanvasOverlay: FloatingCanvas saves a drawing
AddCanvasOverlay ==
  /\ nextOverlay <= MaxOverlays
  /\ canvasOverlays' = canvasOverlays \cup {nextOverlay}
  /\ nextOverlay' = nextOverlay + 1
  /\ UNCHANGED <<heldOverlays, attached>>
  /\ UNCHANGED <<recordings, saving, store, deleting, loadPc, loads, loaded, nextId, revokes,
                 saved, deleted, removed, expect>>
  /\ UNCHANGED <<captureVars, editorVars, hookVars>>

\* exportVideo is called: it runs to its end with the addRecording of the render it was
\* created in, whose canvasOverlays are those of that render
HoldAddRecording ==
  /\ heldOverlays = Null
  /\ nextId <= MaxRecordings
  /\ heldOverlays' = Some(canvasOverlays)
  /\ UNCHANGED <<canvasOverlays, nextOverlay, attached>>
  /\ UNCHANGED <<recordings, saving, store, deleting, loadPc, loads, loaded, nextId, revokes,
                 saved, deleted, removed, expect>>
  /\ UNCHANGED <<captureVars, editorVars, hookVars>>

\* the overlays addRecording attaches, read from the state as it is when it is called
LiveOverlays == canvasOverlays

\* the overlays addRecording attaches: those of the render its caller took it from
AttachedOverlays == heldOverlays[1]

\* addRecording, called at the end of the export: the pending overlays are attached, the
\* save is requested, the recording is put at the head of the list and the pending
\* overlays are cleared
AddRecording(bytes, dur, res) ==
  /\ nextId <= MaxRecordings
  /\ heldOverlays # Null
  /\ LET recording == [id |-> nextId, url |-> nextId, blob |-> bytes, duration |-> dur,
                       timestamp |-> nextId, resolution |-> res, size |-> bytes,
                       canvasOverlays |-> AttachedOverlays]
     IN /\ saving' = saving \cup {SaveRequest(recording)}
        /\ recordings' = <<recording>> \o recordings
  /\ attached' = [attached EXCEPT ![nextId] = canvasOverlays]
  /\ canvasOverlays' = {}
  /\ heldOverlays' = Null
  /\ nextId' = nextId + 1
  /\ UNCHANGED <<store, deleting, loadPc, loads, loaded, revokes, saved, deleted, removed,
                 expect, nextOverlay>>
  /\ UNCHANGED <<captureVars, editorVars, hookVars>>

\* saveRecording after openDB and blob.arrayBuffer(): the stored record is built
SaveBuffer(req) ==
  /\ req \in saving /\ req.pc = "open"
  /\ saving' = (saving \ {req}) \cup {[rec |-> req.rec, stored |-> ToStored(req.rec),
                                       pc |-> "put"]}
  /\ UNCHANGED <<recordings, store, deleting, loadPc, loads, loaded, nextId, revokes, saved,
                 deleted, removed, expect>>
  /\ UNCHANGED <<captureVars, editorVars, annotationVars, hookVars>>

\* saveRecording: the put transaction succeeds and the promise resolves
SavePut(req) ==
  /\ req \in saving /\ req.pc = "put"
  /\ store' = StorePut(store, req.stored)
  /\ saving' = saving \ {req}
  /\ saved' = [saved EXCEPT ![req.rec.id] = Some(req.rec)]
  /\ UNCHANGED <<recordings, deleting, loadPc, loads, loaded, nextId, revokes, deleted,
                 removed, expect>>
  /\ UNCHANGED <<captureVars, editorVars, annotationVars, hookVars>>

\* deleteRecording(id): the stored delete is requested, the URL of the listed recording
\* is revoked and the recording is filtered out of the list
DeleteRecording(id) ==
  /\ id < nextId                               \* an id that was issued
  /\ deleting' = deleting \cup {id}
  /\ revokes' = [u \in DOMAIN revokes |->
                   IF u \in UrlsOf(recordings, id) THEN revokes[u] + 1 ELSE revokes[u]]
  /\ recordings' = Without(recordings, id)
  /\ deleted' = deleted \cup {id}
  /\ removed' = removed \cup UrlsOf(recordings, id)
  /\ UNCHANGED <<store, saving, loadPc, loads, loaded, nextId, saved, expect>>
  /\ UNCHANGED <<captureVars, editorVars, annotationVars, hookVars>>

\* the recording with this id is in the list
Listed(id) == \E i \in DOMAIN recordings : recordings[i].id = id

\* the delete button of a recording's card on the Library page
DeleteListed(id) == Listed(id) /\ DeleteRecording(id)

\* deleteStoredRecording after openDB: the delete transaction succeeds
DeleteStored(id) ==
  /\ id \in deleting
  /\ store' = StoreDelete(store, id)
  /\ deleting' = deleting \ {id}
  /\ UNCHANGED <<recordings, saving, loadPc, loads, loaded, nextId, revokes, saved, deleted,
                 removed, expect>>
  /\ UNCHANGED <<captureVars, editorVars, annotationVars, hookVars>>

\* loadStoredData of the mount effect: loadRecordings resolves and its result becomes
\* the list
LoadResolve ==
  /\ loadPc = "pending"
  /\ loaded' = LoadResult
  /\ recordings' = LoadResult
  /\ loadPc' = "done"
  /\ expect' = {id \in RecordingIds : saved[id] # Null /\ id \notin deleted}
  /\ UNCHANGED <<store, saving, deleting, loads, nextId, revokes, saved, deleted, removed>>
  /\ UNCHANGED <<captureVars, editorVars, annotationVars, hookVars>>

\* the page is loaded again once the store is quiet: the provider mounts with an empty
\* list and loads the stored recordings
Reload ==
  /\ loadPc = "done" /\ loads < MaxLoads
  /\ saving = {} /\ deleting = {}
  /\ loads' = loads + 1
  /\ loadPc' = "pending"
  /\ loaded' = <<>>
  /\ recordings' = <<>>
  /\ canvasOverlays' = {}
  /\ heldOverlays' = Null
  /\ UNCHANGED <<store, saving, deleting, nextId, revokes, saved, deleted, removed, expect,
                 nextOverlay, attached>>
  /\ UNCHANGED <<captureVars, editorVars, hookVars>>

\* ------------------------------------------------------------ useCountdown
CountdownDuration == 3
MaxCountdowns == 3
\* the clock of the countdown advances in half seconds
StepsPerSecond == 2

CountdownIdle ==
  /\ count = Null /\ intervals = <<>> /\ cdNow = 0 /\ countAt = 0
  /\ completed = 0 /\ intended = 0

\* the intervals set by startCountdown and not yet cleared
RunningIntervals == {k \in DOMAIN intervals : intervals[k] # Null}

\* startCountdown, called by the start button: the button is disabled only while recording
StartCountdown ==
  /\ ~rIsRecording
  /\ Len(intervals) < MaxCountdowns
  /\ count' = Some(CountdownDuration)
  /\ countAt' = cdNow
  /\ intervals' = Append(intervals, [current |-> CountdownDuration,
                                     next |-> cdNow + StepsPerSecond])
  /\ intended' = IF RunningIntervals = {} THEN intended + 1 ELSE intended
  /\ UNCHANGED <<cdNow, completed>>
  /\ UNCHANGED <<sessionVars, editorVars, libraryVars, stabilityVars>>

\* the setInterval callback of the k-th startCountdown
IntervalFire(k) ==
  /\ k \in RunningIntervals
  /\ intervals[k].next = cdNow
  /\ LET current == intervals[k].current - 1
     IN IF current > 0
          THEN /\ count' = Some(current)
               /\ intervals' = [intervals EXCEPT ![k] = [current |-> current,
                                                         next |-> cdNow + StepsPerSecond]]
               /\ UNCHANGED completed
          ELSE /\ count' = Null
               /\ intervals' = [intervals EXCEPT ![k] = Null]
               /\ completed' = completed + 1
  /\ countAt' = cdNow
  /\ UNCHANGED <<cdNow, intended>>
  /\ UNCHANGED <<sessionVars, editorVars, libraryVars, stabilityVars>>

\* half a second passes while a countdown runs; due interval callbacks run first
CountdownAdvance ==
  /\ RunningIntervals # {}
  /\ \A k \in RunningIntervals : intervals[k].next > cdNow
  /\ cdNow' = cdNow + 1
  /\ UNCHANGED <<count, intervals, countAt, completed, intended>>
  /\ UNCHANGED <<sessionVars, editorVars, libraryVars, stabilityVars>>

\* -------------------------------------------------- useBackgroundStability
MaxLocks == 3
MaxWorkers == 2

StabilityIdle ==
  /\ hookRecording = FALSE /\ visible = TRUE
  /\ wakeLockRef = 0 /\ wakeLocks = {} /\ wakeRequests = {} /\ nextLock = 1
  /\ workerRef = 0 /\ workers = {} /\ nextWorker = 1

\* requestWakeLock up to its await
RequestWakeLock ==
  /\ nextLock <= MaxLocks
  /\ wakeRequests' = wakeRequests \cup {nextLock}
  /\ nextLock' = nextLock + 1

\* the wake locks held once releaseWakeLock has run
Released == IF wakeLockRef # 0 THEN wakeLocks \ {wakeLockRef} ELSE wakeLocks

\* the component renders with isRecording true: the effects' cleanups, then the effects
RecordingStarts ==
  /\ ~hookRecording
  /\ hookRecording' = TRUE
  /\ wakeLocks' = Released /\ wakeLockRef' = 0
  /\ RequestWakeLock
  /\ nextWorker <= MaxWorkers
  /\ \/ /\ workers' = workers \cup {nextWorker}
        /\ workerRef' = nextWorker
        /\ nextWorker' = nextWorker + 1
     \/ UNCHANGED <<workers, workerRef, nextWorker>>      \* new Worker throws
  /\ UNCHANGED visible
  /\ UNCHANGED <<sessionVars, editorVars, libraryVars, countdownVars>>

\* the component renders with isRecording false: the effects' cleanups, then the effects
RecordingStops ==
  /\ hookRecording
  /\ hookRecording' = FALSE
  /\ wakeLocks' = Released /\ wakeLockRef' = 0
  /\ workers' = IF workerRef # 0 THEN workers \ {workerRef} ELSE workers
  /\ workerRef' = 0
  /\ UNCHANGED <<visible, wakeRequests, nextLock, nextWorker>>
  /\ UNCHANGED <<sessionVars, editorVars, libraryVars, countdownVars>>

\* navigator.wakeLock.request settles: the sentinel is stored, or the request is rejected
\* (always while the document is hidden)
WakeLockSettle(k) ==
  /\ k \in wakeRequests
  /\ wakeRequests' = wakeRequests \ {k}
  /\ \/ /\ visible
        /\ wakeLockRef' = k
        /\ wakeLocks' = wakeLocks \cup {k}
     \/ UNCHANGED <<wakeLockRef, wakeLocks>>
  /\ UNCHANGED <<hookRecording, visible, nextLock, workerRef, workers, nextWorker>>
  /\ UNCHANGED <<sessionVars, editorVars, libraryVars, countdownVars>>

\* visibilitychange: the browser releases the screen wake locks of a hidden document; the
\* handler requests a lock when the page is visible again, recording, and holds no sentinel
VisibilityChange ==
  /\ visible' = ~visible
  /\ IF visible
       THEN wakeLocks' = {} /\ UNCHANGED <<wakeRequests, nextLock>>
       ELSE /\ UNCHANGED wakeLocks
            /\ IF hookRecording /\ wakeLockRef = 0
                 THEN RequestWakeLock
                 ELSE UNCHANGED <<wakeRequests, nextLock>>
  /\ UNCHANGED <<hookRecording, wakeLockRef, workerRef, workers, nextWorker>>
  /\ UNCHANGED <<sessionVars, editorVars, libraryVars, countdownVars>>

HooksIdle == CountdownIdle /\ StabilityIdle

EditorIdle == TrimIdle /\ ExportIdle /\ OverlayIdle

\* -------------------------------------------------------- specifications
SoloSessions == {1}

\* one capture session with every choice of settings, on the wall clock
Init == SessionInit /\ EditorIdle /\ LibraryIdle /\ HooksIdle

Next ==
  \/ \E s \in SoloSessions : StartCall(s)
  \/ \E s \in SoloSessions : DisplayResolve(s)
  \/ \E s \in SoloSessions : PlayResolve(s)
  \/ \E s \in SoloSessions : WebcamResolve(s)
  \/ \E s \in SoloSessions : WebcamPlayResolve(s)
  \/ \E s \in SoloSessions : ResumeResolve(s)
  \/ \E s \in SoloSessions : MicResolve(s)
  \/ StopCall
  \/ PauseCall
  \/ ResumeCall
  \/ \E s \in SoloSessions : TrackEnded(s)
  \/ \E s \in SoloSessions : StopEvent(s)
  \/ \E s \in SoloSessions : TimerFire(s)
  \/ \E l \in SoloSessions : CompositorTick(l)
  \/ Render
  \/ Advance

Spec == Init /\ [][Next]_vars

\* MaxSessions invocations of startRecording under the default settings, which may
\* overlap; the wall clock does not advance
InitOverlap == SessionIdle /\ EditorIdle /\ LibraryIdle /\ HooksIdle

NextOverlap ==
  \/ \E s \in Sessions : StartCall(s)
  \/ \E s \in Sessions : DisplayResolve(s)
  \/ \E s \in Sessions : PlayResolve(s)
  \/ \E s \in Sessions : ResumeResolve(s)
  \/ \E s \in Sessions : MicResolve(s)
  \/ StopCall
  \/ PauseCall
  \/ ResumeCall
  \/ \E s \in Sessions : TrackEnded(s)
  \/ \E s \in Sessions : StopEvent(s)
  \/ \E l \in Sessions : CompositorTick(l)
  \/ Render

SpecOverlap == InitOverlap /\ [][NextOverlap]_vars

\* the chunks of MaxSessions invocations of startRecording that may overlap
InitChunks == SessionIdle /\ EditorIdle /\ LibraryIdle /\ HooksIdle

NextChunks ==
  \/ \E s \in Sessions : StartCall(s)
  \/ \E s \in Sessions : DisplayResolve(s)
  \/ \E s \in Sessions : PlayResolve(s)
  \/ \E s \in Sessions : ResumeResolve(s)
  \/ \E s \in Sessions : MicResolve(s)
  \/ \E s \in Sessions, size \in ChunkSizes : DataAvailable(s, size)
  \/ StopCall
  \/ \E s \in Sessions : StopEvent(s)
  \/ Render

SpecChunks == InitChunks /\ [][NextChunks]_vars

\* the trim tab of the editor on a loaded asset
InitTrim == SessionIdle /\ EditorIdle /\ LibraryIdle /\ HooksIdle

NextTrim ==
  \/ \E d \in Durations : LoadVideo(d)
  \/ \E v \in 0..videoDuration : StartSlider(v)
  \/ \E v \in 0..videoDuration : EndSlider(v)
  \/ SetStart
  \/ SetEnd
  \/ \E time \in 0..videoDuration : Seek(time)
  \/ \E time \in 0..videoDuration : TimeUpdate(time)

SpecTrim == InitTrim /\ [][NextTrim]_vars

\* the trim windows exports start from: none or an empty one, one or two tenths of a
\* second, half of the asset, all of it, and windows whose end is not after the start
TrimStarts == {0, 1, MaxDuration \div 2, MaxDuration}
TrimEnds == {0, 1, 2, MaxDuration \div 2, MaxDuration}

\* exports of a loaded and trimmed asset, by either version of the editor
InitExport ==
  /\ SessionIdle /\ OverlayIdle /\ LibraryIdle /\ HooksIdle
  /\ videoDuration = MaxDuration /\ currentTime = 0
  /\ trimState \in [startTime : TrimStarts, endTime : TrimEnds]
  /\ editorVersion \in EditorVersions
  /\ exportPc = "idle" /\ isExporting = FALSE /\ exportProgress = 0
  /\ exports = 0 /\ exportRun = NoRun
  /\ exportSpeed \in (IF editorVersion = "current" THEN EXPORT_SPEEDS ELSE {100})
  /\ frameMech \in (IF editorVersion = "current" THEN FrameMechanisms ELSE {"raf"})
  /\ \E p \in PriorVideoStates :
       /\ video = [NoVideo EXCEPT !.muted = p.muted, !.playbackRate = p.playbackRate]
       /\ previous = p
  /\ framePending = FALSE /\ newFrame = FALSE /\ timeupdateDue = FALSE
  /\ drawn = Null /\ frameIndex = 0 /\ metadataWait = 0

NextExport ==
  \/ ExportStart
  \/ MetadataSettle
  \/ MetadataWait
  \/ MetadataTimeout
  \/ SeekSettle
  \/ PlaySettle
  \/ VideoPlay
  \/ FrameCallback
  \/ ExportTimeUpdate
  \/ SeekDone
  \/ SeekedFrame
  \/ \E size \in BlobSizes : ExportSettle(size)
  \/ ExportError

SpecExport == InitExport /\ [][NextExport]_vars

\* the browser delivers every event and callback it has pending, time passes and timers
\* fire, and the media plays on while it is not paused; a new export, the arrival of the
\* metadata and an encoder error are up to the environment
ExportFairness ==
  /\ WF_vars(MetadataWait) /\ WF_vars(MetadataTimeout)
  /\ WF_vars(SeekSettle) /\ WF_vars(PlaySettle)
  /\ WF_vars(VideoPlay) /\ WF_vars(FrameCallback) /\ WF_vars(ExportTimeUpdate)
  /\ WF_vars(SeekDone)
  /\ WF_vars(SeekedFrame) /\ WF_vars(\E size \in BlobSizes : ExportSettle(size))

SpecExportLive == SpecExport /\ ExportFairness

\* exports by the current editor, at double speed, of an asset trimmed to its whole
\* length, to its second half or to nothing, with the browser's events delivered
InitEnsureReady ==
  /\ InitExport
  /\ editorVersion = "current"
  /\ exportSpeed = 200 /\ previous.muted
  /\ trimState.startTime # 1 /\ trimState.endTime = MaxDuration

NextEnsureReady ==
  \/ ExportStart
  \/ MetadataSettle
  \/ MetadataWait
  \/ MetadataTimeout
  \/ SeekSettle
  \/ PlaySettle
  \/ VideoPlay
  \/ FrameCallback
  \/ ExportTimeUpdate
  \/ SeekDone
  \/ \E size \in BlobSizes : ExportSettle(size)
  \/ ExportError

SpecEnsureReady == InitEnsureReady /\ [][NextEnsureReady]_vars /\ ExportFairness

\* exports by the current editor of an asset trimmed up to its end, from every state of
\* the source element and at every export speed
InitRestore ==
  /\ InitExport
  /\ editorVersion = "current"
  /\ trimState.endTime = MaxDuration

NextRestore ==
  \/ ExportStart
  \/ MetadataSettle
  \/ MetadataWait
  \/ MetadataTimeout
  \/ SeekSettle
  \/ PlaySettle
  \/ VideoPlay
  \/ FrameCallback
  \/ ExportTimeUpdate
  \/ SeekDone
  \/ \E size \in BlobSizes : ExportSettle(size)
  \/ ExportError

SpecRestore == InitRestore /\ [][NextRestore]_vars

\* the library of a provider that mounts on an empty store: recordings are added,
\* saved, deleted and loaded again
InitLibrary ==
  /\ SessionIdle /\ EditorIdle /\ HooksIdle
  /\ store = EmptyStore /\ saving = {} /\ deleting = {}
  /\ loadPc = "pending" /\ loads = 1 /\ loaded = <<>> /\ nextId = 1
  /\ revokes = [u \in 1..(MaxRecordings * (MaxLoads + 1)) |-> 0]
  /\ saved = EmptyStore /\ deleted = {} /\ removed = {} /\ expect = {}
  /\ canvasOverlays = {} /\ heldOverlays = Null /\ nextOverlay = 1
  /\ attached = [id \in RecordingIds |-> {}]

NextLibrary ==
  \/ HoldAddRecording
  \/ \E r \in RecordingSamples : AddRecording(r.bytes, r.duration, r.resolution)
  \/ \E req \in saving : SaveBuffer(req)
  \/ \E req \in saving : SavePut(req)
  \/ \E id \in RecordingIds : DeleteRecording(id)
  \/ \E id \in RecordingIds : DeleteStored(id)
  \/ LoadResolve
  \/ Reload

SpecLibrary == InitLibrary /\ [][NextLibrary]_vars

\* the library as the Library page drives it: recordings are added, saved, deleted with
\* the delete button of their card, and loaded again
InitRoundTrip == InitLibrary

NextRoundTrip ==
  \/ HoldAddRecording
  \/ \E r \in RecordingSamples : AddRecording(r.bytes, r.duration, r.resolution)
  \/ \E req \in saving : SaveBuffer(req)
  \/ \E req \in saving : SavePut(req)
  \/ \E id \in RecordingIds : DeleteListed(id)
  \/ \E id \in RecordingIds : DeleteStored(id)
  \/ LoadResolve
  \/ Reload

SpecRoundTrip == InitRoundTrip /\ [][NextRoundTrip]_vars

\* canvas overlays saved before and during exports, the recordings the exports add, and
\* the library loaded again
InitAnnotations == InitLibrary

NextAnnotations ==
  \/ AddCanvasOverlay
  \/ HoldAddRecording
  \/ \E r \in RecordingSamples : AddRecording(r.bytes, r.duration, r.resolution)
  \/ \E req \in saving : SaveBuffer(req)
  \/ \E req \in saving : SavePut(req)
  \/ LoadResolve
  \/ Reload

SpecAnnotations == InitAnnotations /\ [][NextAnnotations]_vars

\* the overlay rectangle over canvas sizes, size classes, corners and shapes
InitOverlay ==
  /\ SessionIdle /\ TrimIdle /\ ExportIdle /\ LibraryIdle /\ HooksIdle
  /\ overlayCfg \in [width : CanvasWidths, height : CanvasHeights, webcamSize : WebcamSizes,
                      webcamCorner : WebcamCorners, cameraShape : CameraShapes,
                      cameraEnabled : {TRUE}, webcamMirror : {TRUE}, webcamBorder : {TRUE},
                      webcamShadow : {TRUE}]
  /\ loopCfg = Some(OverlaySettings(overlayCfg))
  /\ overlayRect = Null

NextOverlay ==
  \/ DrawOverlay
  \/ \E size \in WebcamSizes, corner \in WebcamCorners, shape \in CameraShapes :
       UpdateSettings(size, corner, shape)

SpecOverlay == InitOverlay /\ [][NextOverlay]_vars

\* a live recording on a 1080p canvas whose compositor loop was started under any choice
\* of the switches; the overlay settings are changed while it runs
InitCompositor ==
  /\ SessionIdle /\ TrimIdle /\ ExportIdle /\ LibraryIdle /\ HooksIdle
  /\ overlayCfg \in [width : {1920}, height : {1080}, webcamSize : {"medium"},
                      webcamCorner : {"bottom-right"}, cameraShape : {"circle"},
                      cameraEnabled : BOOLEAN, webcamMirror : BOOLEAN,
                      webcamBorder : BOOLEAN, webcamShadow : BOOLEAN]
  /\ loopCfg = Some(OverlaySettings(overlayCfg))
  /\ overlayRect = Null

NextCompositor ==
  \/ DrawOverlay
  \/ \E size \in WebcamSizes, corner \in WebcamCorners, shape \in CameraShapes :
       UpdateSettings(size, corner, shape)
  \/ \E key \in OverlayFlags : ToggleSetting(key)

SpecCompositor == InitCompositor /\ [][NextCompositor]_vars

\* MaxSessions invocations of startRecording that may overlap, and pauseRecording, on
\* the wall clock
InitPaused == SessionIdle /\ EditorIdle /\ LibraryIdle /\ HooksIdle

NextPaused ==
  \/ \E s \in Sessions : StartCall(s)
  \/ \E s \in Sessions : DisplayResolve(s)
  \/ \E s \in Sessions : PlayResolve(s)
  \/ \E s \in Sessions : ResumeResolve(s)
  \/ \E s \in Sessions : MicResolve(s)
  \/ PauseCall
  \/ \E s \in Sessions : TimerFire(s)
  \/ Render
  \/ Advance

SpecPaused == InitPaused /\ [][NextPaused]_vars

\* the countdown of the Record page: MaxCountdowns presses of the start button
InitCountdown == SessionIdle /\ EditorIdle /\ LibraryIdle /\ HooksIdle

NextCountdown ==
  \/ StartCountdown
  \/ \E k \in 1..MaxCountdowns : IntervalFire(k)
  \/ CountdownAdvance

SpecCountdown == InitCountdown /\ [][NextCountdown]_vars

\* the background-stability hook under changes of isRecording and of the page's visibility
InitStability == SessionIdle /\ EditorIdle /\ LibraryIdle /\ HooksIdle

NextStability ==
  \/ RecordingStarts
  \/ RecordingStops
  \/ \E k \in 1..MaxLocks : WakeLockSettle(k)
  \/ VisibilityChange

SpecStability == InitStability /\ [][NextStability]_vars

\* ------------------------------------------------------------------ claims
HasRecording(s) == \E i \in DOMAIN recordings : recordings[i].sid = s

\* C1: the duration stored in a session's Recording equals the time its encoder spent
\* recording (stop time - start time - paused intervals) to within one period of the
\* 100 ms duration timer.
DurationAccurate ==
  \A i \in DOMAIN recordings :
    recordings[i].sid \in Sessions =>
      /\ recordings[i].duration * TicksPerSecond - recordings[i].active <= 1
      /\ recordings[i].active - recordings[i].duration * TicksPerSecond <= 1

\* C2: stopRecording called while no encoder is active changes no state, and a session
\* never yields more than one Recording however often it is stopped.
StopIdempotent ==
  /\ [](\A s \in Sessions :
          Cardinality({i \in DOMAIN recordings : recordings[i].sid = s}) <= 1)
  /\ [][(~EncoderActive /\ StopCall) => UNCHANGED <<recordings, implVars, editorVars, libraryVars>>]_vars

\* a stop was called on a session already stopped, whose Recording exists
StopIdempotentWitness ==
  /\ last.op = "stop"
  /\ mediaRecorderRef = 1 /\ recorder[1] = "inactive"
  /\ HasRecording(1)

\* C3: pauseRecording acts only in state Recording and resumeRecording only in state
\* Paused; in every other state the call does not reach the encoder and leaves isPaused,
\* pauseStartRef and pausedDurationRef unchanged.
PauseResumeOnlyWhenValid ==
  [][ /\ (PauseCall /\ ~StateRecording) =>
           /\ last'.op # "pause"
           /\ UNCHANGED <<isPaused, pauseStartRef, pausedDurationRef>>
      /\ (ResumeCall /\ ~StatePaused) =>
           /\ last'.op # "resume"
           /\ UNCHANGED <<isPaused, pauseStartRef, pausedDurationRef>> ]_vars

LifecycleState ==
  IF ~isRecording THEN "Idle" ELSE IF isPaused THEN "Paused" ELSE "Recording"

LifecycleTransitions ==
  {<<"Idle", "Recording">>, <<"Recording", "Paused">>, <<"Paused", "Recording">>,
   <<"Recording", "Idle">>, <<"Paused", "Idle">>}

FreshIdle ==
  /\ ~isRecording /\ ~isPaused /\ timerRef = 0
  /\ startTimeRef = Null /\ pauseStartRef = Null /\ pausedDurationRef = 0

\* C4: the lifecycle state changes only along Idle -> Recording, Recording -> Paused,
\* Paused -> Recording and Recording|Paused -> Idle; a start completes from Idle into
\* Recording with duration 0 and nothing carried over; a stop leaves a fresh Idle.
LifecycleOnlyAllowed ==
  [][ /\ LifecycleState' # LifecycleState =>
           <<LifecycleState, LifecycleState'>> \in LifecycleTransitions
      /\ \A s \in Sessions :
           (pc[s] # "done" /\ pc'[s] = "done") =>
             /\ LifecycleState = "Idle" /\ LifecycleState' = "Recording"
             /\ duration' = 0 /\ pausedDurationRef' = 0 /\ pauseStartRef' = Null
      /\ (EncoderActive /\ StopCall) => FreshIdle' ]_vars

\* C5: on a loaded asset the trim window satisfies 0 <= start < end <= duration and
\* end - start >= 0.5 s after every trim mutation.
TrimWindowInvariant ==
  videoDuration > 0 =>
    /\ 0 <= trimState.startTime
    /\ trimState.startTime < trimState.endTime
    /\ trimState.endTime <= videoDuration
    /\ trimState.endTime - trimState.startTime >= MinTrimGap

RequiredSteps == {"screen", "canvas", "play", "audiocontext", "encoder"}

\* C7: a start is aborted only by the failure of a required step (screen capture, canvas,
\* screen video, audio context, encoder), never by a rejected microphone or webcam
\* request or a screen share without audio; a completed start has started its encoder.
OptionalFailuresNonFatal ==
  \A s \in Sessions :
    /\ pc[s] = "failed" => failCause[s] \in RequiredSteps
    /\ pc[s] = "done" => recorder[s] \in {"recording", "paused", "inactive"}

\* microphone and webcam rejected, no system audio track, and the session records
OptionalFailuresWitness ==
  /\ pc[1] = "done" /\ recorder[1] = "recording" /\ isRecording
  /\ settings.audioSource = "both" /\ mic[1] = "none" /\ ~sysAudio[1]
  /\ settings.cameraEnabled /\ webcam[1] = "none"

\* C8: an export whose encoder yields a zero-byte blob ends as a failure: an error is
\* shown, nothing is downloaded and no Recording is added.
ZeroByteExportFails ==
  (exportPc = "settled" /\ exportRun.blob = Some(0)) =>
    /\ exportRun.toast = "failed"
    /\ ~exportRun.downloaded
    /\ ~exportRun.added

\* C9: once the stop handler of a session has run, the screen, webcam, microphone and
\* composite streams that session acquired are stopped and its compositor loop is gone.
StopReleasesEverything ==
  \A s \in Sessions :
    HasRecording(s) =>
      /\ display[s] # "live" /\ webcam[s] # "live" /\ mic[s] # "live"
      /\ canvas[s] # "live"
      /\ s \notin rafLoops

\* C10: a start that fails after the screen stream was acquired ends in Idle with the UI
\* restored, every acquired track stopped, screenStream cleared, and neither a compositor
\* loop nor a duration timer left running.
StartFailureCleansUp ==
  \A s \in Sessions :
    (pc[s] = "failed" /\ display[s] # "none") =>
      /\ ~isRecording /\ ~isUIHidden
      /\ display[s] # "live" /\ webcam[s] # "live" /\ mic[s] # "live"
      /\ canvas[s] # "live"
      /\ screenStream = 0
      /\ s \notin rafLoops /\ s \notin timers

\* C11: once the screen video track of a session has ended, the session is stopped as by
\* stopRecording: its encoder is not recording or paused and the state is Idle.
TrackEndStopsSession ==
  \A s \in Sessions :
    display[s] = "ended" =>
      /\ recorder[s] \notin {"recording", "paused"}
      /\ ~isRecording

\* C12: an export started with a degenerate trim window (end <= start) is rejected before
\* the seek and the encoder start, and adds no Recording.
DegenerateTrimRejected ==
  trimState.endTime <= trimState.startTime =>
    /\ exportPc \notin {"seek", "encoding"}
    /\ ~exportRun.added
\* C13: every export of the current editor that is encoding terminates: isExporting
\* returns to false, whichever of the frame callback and handleTimeUpdate runs first and
\* whichever frame-callback mechanism the browser has.
ExportTerminates ==
  (editorVersion = "current" /\ isExporting /\ exportPc = "encoding") ~> ~isExporting

\* C14: once an export of the current editor has left exportVideo, by any exit path, the
\* source element's muted flag and playback rate are those from before the export,
\* isExporting is false and exportProgress is 0.
ExportExitRestores ==
  (editorVersion = "current" /\ exportPc = "settled") =>
    /\ video.muted = previous.muted
    /\ video.playbackRate = previous.playbackRate
    /\ ~isExporting
    /\ exportProgress = 0

\* a muted element playing at half speed was exported at double speed, successfully
ExportExitRestoresWitness ==
  /\ editorVersion = "current" /\ exportPc = "settled"
  /\ exportRun.toast = "complete"
  /\ previous = [muted |-> TRUE, playbackRate |-> 50]
  /\ exportSpeed = 200

\* C15: while an export runs, the published progress stays within [0, 100] and no step
\* lowers it.
ProgressMonotone ==
  [][(isExporting /\ isExporting') =>
       (exportProgress' \in 0..100 /\ exportProgress' >= exportProgress)]_vars

\* C16: a successful export of a trim window [s, e] (0 <= s < e <= duration) at speed k
\* has added a Recording of duration (e - s) / k, and the frames drawn for the encoder
\* start at s and end at e: none lies before s or after e.
ExportCoversTrimWindow ==
  LET s == trimState.startTime
      e == trimState.endTime
  IN (/\ exportPc = "settled" /\ exportRun.toast = "complete"
      /\ 0 <= s /\ s < e /\ e <= videoDuration) =>
       /\ exportRun.added
       /\ recordings # <<>>
       /\ recordings[1].sid = EditedId
       /\ recordings[1].duration.num * exportSpeed = (e - s) * 100 * recordings[1].duration.den
       /\ drawn # Null
       /\ drawn[1] = s * FramesPerTenth
       /\ drawn[2] <= e * FramesPerTenth
       /\ drawn[2] > (e - 1) * FramesPerTenth

\* C17: a recording whose save has completed and that was not deleted is returned by the
\* next loadRecordings with the id, duration, resolution, size and byte length it was
\* saved with, whatever was saved or deleted under other ids in between.
SaveLoadRoundTrip ==
  loadPc = "done" =>
    \A id \in expect :
      \E i \in DOMAIN loaded :
        /\ loaded[i].id = id
        /\ loaded[i].duration = saved[id][1].duration
        /\ loaded[i].resolution = saved[id][1].resolution
        /\ loaded[i].size = saved[id][1].size
        /\ loaded[i].blob = saved[id][1].blob

\* recording 1 is read back after recording 2 was saved and deleted again
SaveLoadRoundTripWitness ==
  /\ loadPc = "done" /\ 1 \in expect /\ Len(loaded) = 1
  /\ saved[2] # Null /\ 2 \in deleted /\ store[2] = Null

\* C19: a recording deleteRecording was called for is in the list no more and, once no
\* request for its id is in flight, in the store no more; the URL of a recording removed
\* from the list was revoked exactly once, and no listed recording's URL was revoked.
DeleteRemoves ==
  /\ \A id \in deleted :
       /\ \A i \in DOMAIN recordings : recordings[i].id # id
       /\ (id \notin deleting /\ \A req \in saving : req.rec.id # id) => store[id] = Null
  /\ \A u \in removed : revokes[u] = 1
  /\ \A i \in DOMAIN recordings : revokes[recordings[i].url] = 0

\* C18: the composite stream handed to the encoder carries one mixed audio track when a
\* selected branch was connected (system track present, microphone granted) and none
\* otherwise, never one with audioSource none; with both sources available under
\* 'both' the two branches feed the destination with gains 1.0 (system) and 0.8 (mic).
AudioMixTracks ==
  \A s \in Sessions :
    pc[s] \in {"done", "failed"} /\ streamRef = s =>
      LET systemBranch == settings.audioSource \in {"system", "both"} /\ sysAudio[s]
          micBranch == settings.audioSource \in {"mic", "both"} /\ mic[s] = "live"
      IN /\ compositeAudio[s] = (IF systemBranch \/ micBranch THEN 1 ELSE 0)
         /\ settings.audioSource = "none" => compositeAudio[s] = 0
         /\ (settings.audioSource = "both" /\ systemBranch /\ micBranch) =>
              audioMix[s] = [system |-> 10, mic |-> 8]

\* a session records with 'both', the system track present and the microphone granted
AudioMixTracksWitness ==
  /\ pc[1] = "done" /\ streamRef = 1 /\ recorder[1] = "recording"
  /\ settings.audioSource = "both" /\ sysAudio[1] /\ mic[1] = "live"
  /\ compositeAudio[1] = 1

\* C20: while a session's encoder is recording or paused exactly one compositor frame is
\* pending, and once the stop handler of a session has run its compositor loop is
\* cancelled, so that none of its ticks can run again.
CompositorLoopSingle ==
  \A s \in Sessions :
    /\ recorder[s] \in {"recording", "paused"} => Cardinality(rafLoops) = 1
    /\ (recorder[s] = "inactive" /\ pc[s] = "done" /\ s \notin stopPending) => s \notin rafLoops

\* C21: the compositor reads the overlay settings on every tick: the overlay a tick draws
\* is the one of the settings current at that tick (enabled flag, shape, size, corner,
\* mirror, border, shadow), whatever updateSettings changed since the loop was started.
CompositorReadsSettings ==
  [][DrawOverlay => overlayRect' = OverlayOf(OverlaySettings(overlayCfg))]_vars

RECURSIVE NonEmpty(_)
NonEmpty(chunks) ==
  IF chunks = <<>> THEN <<>>
  ELSE (IF Head(chunks).size > 0 THEN <<Head(chunks)>> ELSE <<>>) \o NonEmpty(Tail(chunks))

\* C22: the binary of a session's Recording is the sequence, in arrival order, of exactly
\* the non-empty chunks that session's encoder delivered, none reordered, dropped,
\* duplicated or taken from another session, and the Recording exists only once the
\* encoder's stop event was handled.
ChunksInOrder ==
  \A i \in DOMAIN recordings :
    LET s == recordings[i].sid
    IN s \in Sessions =>
         /\ recordings[i].blob = NonEmpty(delivered[s])
         /\ recorder[s] = "inactive" /\ s \notin stopPending

\* C23: waiting for the source metadata is bounded: an export that waits in
\* ensureVideoReady leaves it, resolved or rejected, and has never waited longer than
\* the 8 s timeout.
MetadataWaitBounded ==
  /\ [](exportPc = "metadata" => metadataWait <= MetadataTimeoutS)
  /\ (isExporting /\ exportPc = "metadata") ~> (exportPc # "metadata")

\* no metadata event came in 8 s: the export was rejected by the timer
MetadataWaitBoundedWitness ==
  /\ exportPc = "settled" /\ metadataWait = MetadataTimeoutS
  /\ exportRun.toast = "failed" /\ ~isExporting

\* C24: in an export of the current editor the first frame is drawn and the encoder and
\* the playback are started only once the seek to the trim start has completed: at that
\* step the source is not seeking and shows the picture of the trim start.
EncodeAfterSeek ==
  [][(editorVersion = "current" /\ exportPc # "play" /\ exportPc' = "play") =>
       (~video'.seeking /\ video'.frame = ExportStartTime)]_vars

\* C25: addRecording attaches the canvas overlays pending at that moment, all of them, to
\* the Recording it adds and leaves none pending, also when an overlay was added while
\* the export was running; and every listed Recording, added or loaded from the store,
\* carries the overlays that were attached to it.
OverlaysFollowRecording ==
  /\ [][nextId' = nextId + 1 =>
         /\ OverlaysOf(recordings'[1]) = canvasOverlays
         /\ canvasOverlays' = {}]_vars
  /\ [](\A i \in DOMAIN recordings : OverlaysOf(recordings[i]) = attached[recordings[i].id])

\* the sessions whose encoder is recording or paused
LiveSessions == {s \in Sessions : recorder[s] \in {"recording", "paused"}}

\* C26: at most one capture session is live under every interleaving of startRecording
\* calls: never more than one active encoder, one duration timer and one compositor loop,
\* and every active encoder is the one stopRecording acts on.
SingleLiveSession ==
  /\ Cardinality(LiveSessions) <= 1
  /\ Cardinality(timers) <= 1
  /\ Cardinality(rafLoops) <= 1
  /\ \A s \in LiveSessions : mediaRecorderRef = s


\* C27: after startCountdown the displayed count is n and then goes down by one at
\* one-second steps to 1 and becomes null, when onComplete is called, once; starting
\* again while a countdown runs does not make onComplete run more than once per
\* intended start.
CountdownOnce ==
  [][ /\ IF Len(intervals') > Len(intervals)
           THEN count' = Some(CountdownDuration)
           ELSE count' # count =>
                  /\ count # Null
                  /\ countAt' - countAt = StepsPerSecond
                  /\ count' = (IF count[1] > 1 THEN Some(count[1] - 1) ELSE Null)
                  /\ completed' = (IF count' = Null THEN completed + 1 ELSE completed)
      /\ completed' <= intended' ]_vars

\* C30: the screen wake lock is held only while recording: with isRecording false and no
\* wake-lock request pending no lock is held; at most one background timer worker exists.
WakeLockOnlyWhileRecording ==
  /\ (~hookRecording /\ wakeRequests = {}) => wakeLocks = {}
  /\ Cardinality(workers) <= 1


\* C28: isPaused implies isRecording, and a duration timer runs only while isRecording is
\* true: once stopRecording has acted no interval timer of any session is left running.
TimerOnlyWhileRecording ==
  /\ isPaused => isRecording
  /\ timers # {} => isRecording

\* C29: while the session is paused the reported duration does not change; over a session
\* the reported duration never decreases, and it is never negative.
DurationSteady ==
  [][ /\ (isPaused /\ isPaused') => duration' = duration
      /\ (\A s \in Sessions : pc'[s] = pc[s]) => duration' >= duration
      /\ duration' >= 0 ]_vars

====
